---- MODULE Spec2Model ----
(***************************************************************************)
(* A model of trlx/model/accelerate_base_model.py: AccelerateRLModel.      *)
(*                                                                         *)
(* Every process of a data-parallel run executes the same learn() loop on  *)
(* its own copy of the object.  Processes meet only in the collective      *)
(* calls: accelerator.backward (gradient all-reduce) and                   *)
(* accelerator.gather (in evaluate).  The model keeps one program counter  *)
(* per process and advances one source statement per step.                 *)
(***************************************************************************)
EXTENDS Integers, Sequences, FiniteSets, TLC

(***************************************************************************)
(* Bounds of the model.                                                    *)
(***************************************************************************)
MaxEpochs == 2
MaxBatches == 2
MaxUpdates == 2
MaxTotalSteps == 3
MaxInterval == 2
MaxProcs == 2
MaxBlocks == 6
MaxCalls == 2
MaxLength == 2
MaxWidth == 2
MaxRows == 3

VARIABLES
    config,        \* the configuration and the collaborators fixed at construction
    requires_grad, \* requires_grad of every block of gpt_blocks, in order
    freeze_i,      \* position of the freeze loop of __init__ (line 63)
    pc,            \* per process: the statement it is about to execute
    iter_count,    \* per process: self.iter_count
    epoch,         \* per process: index of the `for _ in range(epochs)` loop
    batch,         \* per process: index of the `for batch in train_dataloader` loop
    upd,           \* per process: index of the `for _ in range(n_updates_per_batch)` loop
    n_loss,        \* per process: calls of self.loss in this run
    n_backward,    \* per process: calls of accelerator.backward in this run
    n_opt_step,    \* per process: calls of opt.step in this run
    n_zero_grad,   \* per process: calls of opt.zero_grad in this run
    n_sched_step,  \* per process: calls of scheduler.step in this run
    n_evaluate,    \* per process: calls of self.evaluate
    n_gather,      \* per process: calls of accelerator.gather
    eval_kind,     \* per process: which call site of evaluate() is running
    stats,         \* per process: the keys of evaluate()'s stats dict
    retval,        \* per process: what learn() returned
    trace,         \* per process: the calls made so far, in order
    eval_in,       \* tokenizer, max_length, the evaluation prompts' generations, reward_fn
    all_samples,   \* per process: torch.vstack(all_samples) of the last evaluate()
    gathered,      \* per process: what accelerator.gather returned (line 158)
    n_reward_fn,   \* per process: calls of self.reward_fn
    reward_arg,    \* per process: the argument of the last call of self.reward_fn
    rewards,       \* per process: the rewards of the last evaluate() (line 172)
    mean_reward,   \* per process: stats["mean_reward"] of the last evaluate()
    n_tracker_log  \* per process: calls of the log method of a tracker

vars == <<config, requires_grad, freeze_i, pc, iter_count, epoch, batch, upd,
          n_loss, n_backward, n_opt_step, n_zero_grad, n_sched_step,
          n_evaluate, n_gather, eval_kind, stats, retval, trace,
          eval_in, all_samples, gathered, n_reward_fn, reward_arg, rewards,
          mean_reward, n_tracker_log>>

loopVars == <<epoch, batch, upd>>
stepVars == <<n_loss, n_backward, n_opt_step, n_zero_grad, n_sched_step>>
evalVars == <<n_evaluate, n_gather, eval_kind, stats>>
initVars == <<config, requires_grad, freeze_i>>
rewardVars == <<n_reward_fn, reward_arg, rewards, mean_reward>>
dataVars == <<eval_in, all_samples, gathered, rewardVars, n_tracker_log>>

(***************************************************************************)
(* Processes.  accelerate numbers them from 0; process 0 is the main one.  *)
(***************************************************************************)
Procs == 0 .. (config.nproc - 1)

is_main_process(p) == p = 0

(***************************************************************************)
(* Layer-freeze policy of __init__.                                        *)
(***************************************************************************)
\* Python's list[:stop] for a list of length len: a negative stop counts
\* from the end, and the result is clamped to the list.
SliceStop(len, stop) ==
    LET s == IF stop < 0 THEN stop + len ELSE stop
    IN  IF s < 0 THEN 0 ELSE IF s > len THEN len ELSE s

\* A plausible slip: keep the first num_layers_unfrozen blocks trainable.
gpt_blocks_to_freeze_Mut(len, num_layers_unfrozen) ==
    IF num_layers_unfrozen = 0
    THEN [i \in 1 .. len |-> i]
    ELSE IF num_layers_unfrozen > 0
         THEN LET first == SliceStop(len, num_layers_unfrozen)
              IN  [i \in 1 .. (len - first) |-> first + i]
         ELSE <<>>

\* The list of blocks (by position, 1-based) that __init__ freezes.
gpt_blocks_to_freeze(len, num_layers_unfrozen) ==
    IF num_layers_unfrozen = 0
    THEN [i \in 1 .. len |-> i]
    ELSE IF num_layers_unfrozen > 0
         THEN [i \in 1 .. SliceStop(len, -num_layers_unfrozen) |-> i]
         ELSE <<>>

(***************************************************************************)
(* The cadence and termination tests of learn().                           *)
(***************************************************************************)
CheckpointDue_Mut(p) == iter_count[p] % config.checkpoint_interval = 0
                        /\ iter_count[p] % config.eval_interval # 0

CheckpointDue(p) == iter_count[p] % config.checkpoint_interval = 0

\* A plausible slip: the evaluation cadence tested on the main process only.
EvalDue_Mut(p) == p = 0 /\ iter_count[p] % config.eval_interval = 0

EvalDue(p) == iter_count[p] % config.eval_interval = 0

ReachedTotalSteps_Mut(p) == iter_count[p] > config.total_steps

ReachedTotalSteps(p) == iter_count[p] >= config.total_steps

(***************************************************************************)
(* The record of one call, as kept in trace.                               *)
(***************************************************************************)
Event(p, ev, k, kind, keys) ==
    [ev |-> ev, k |-> k, kind |-> kind, keys |-> keys,
     e |-> epoch[p], b |-> batch[p], u |-> upd[p]]

Record(p, ev, kind, keys) ==
    trace' = [trace EXCEPT ![p] = Append(@, Event(p, ev, iter_count[p], kind, keys))]

\* Keys of the stats dict returned by self.loss: opaque to this class.
LossStatsKeys == {"loss"}

MetricNames == {"m1", "m2"}

MetricKey(name) == "metrics/" \o name

(***************************************************************************)
(* The data of evaluate(), lines 136-177.  A sample is a row of token ids; *)
(* a batch of generations is a tensor of eval_in.rows rows, all of the     *)
(* width the generation of that batch came out with.                       *)
(***************************************************************************)
\* The token generate() put at position j of row r of batch b on process
\* p: every position gets an id of its own, none of them a pad value.
Token(p, b, r, j) == 1000 * (p + 1) + 100 * b + 10 * r + j

\* Lines 140-146: the samples generated for batch b.
GeneratedBatch(p, b) ==
    [r \in 1 .. eval_in.rows |-> [j \in 1 .. eval_in.width[<<p, b>>] |-> Token(p, b, r, j)]]

\* Line 148.
pad_token == IF eval_in.tokenizer THEN eval_in.eos_token_id ELSE 0

\* F.pad(row, (0, n), value=value): n values appended on the right; a
\* negative n removes -n positions from the right end instead.
Pad(row, n, value) ==
    IF n >= 0
    THEN row \o [i \in 1 .. n |-> value]
    ELSE SubSeq(row, 1, Len(row) + n)

\* Lines 149-155: batch b as appended to all_samples.
PaddedBatch(p, b) ==
    [r \in 1 .. eval_in.rows |->
        Pad(GeneratedBatch(p, b)[r], eval_in.max_length - eval_in.width[<<p, b>>],
            pad_token)]

\* Lines 139-158: torch.vstack of the first nb padded batches.
RECURSIVE VStack(_, _)
VStack(p, nb) == IF nb = 0 THEN <<>> ELSE VStack(p, nb - 1) \o PaddedBatch(p, nb)

\* Line 158: accelerator.gather concatenates the tensors of processes
\* 0 .. n - 1 in rank order.
RECURSIVE GatherRanks(_, _)
GatherRanks(tensors, n) ==
    IF n = 0 THEN <<>> ELSE GatherRanks(tensors, n - 1) \o tensors[n - 1]

\* Line 162: batch_decode(samples, skip_special_tokens=True) turns every
\* row into the text of its tokens, the end-of-sequence tokens left out.
batch_decode(samples) ==
    [i \in 1 .. Len(samples) |->
        SelectSeq(samples[i], LAMBDA t : t # eval_in.eos_token_id)]

\* A plausible slip: the rewards computed before the gather, on the
\* samples of this process alone.
RewardInput_Mut(p) ==
    IF eval_in.tokenizer THEN batch_decode(all_samples[p]) ELSE all_samples[p]

\* Lines 161-172: what reward_fn is called with.
RewardInput(p) ==
    IF eval_in.tokenizer THEN batch_decode(gathered[p]) ELSE gathered[p]

\* reward_fn is the user's: one scalar per sample.  Here the i-th sample
\* gets eval_in.reward.a * i + eval_in.reward.c.
reward_fn(samples) ==
    [i \in 1 .. Len(samples) |-> eval_in.reward.a * i + eval_in.reward.c]

RECURSIVE SumSeq(_)
SumSeq(xs) == IF xs = <<>> THEN 0 ELSE xs[1] + SumSeq(Tail(xs))

\* Line 173: rewards.mean(), kept as the fraction num / den.
Mean(xs) == [num |-> SumSeq(xs), den |-> Len(xs)]

\* No mean_reward in stats.
NoMean == [num |-> 0, den |-> 0]

\* Lines 66-79: init_trackers runs on the main process only, so only
\* there has the accelerator a tracker to forward log() to.
HasTrackers_Mut(p) == TRUE

HasTrackers(p) == is_main_process(p)


(***************************************************************************)
(* Configurations.                                                         *)
(***************************************************************************)
\* reward_fn, metric_fn (set or None) and the names of the metrics that
\* metric_fn returns.
EvalConfigs ==
    {c \in [reward_fn : BOOLEAN, metric_fn : BOOLEAN, metric_names : SUBSET MetricNames] :
        ~c.metric_fn => c.metric_names = {}}

LoopConfigs(Es, Bs, Us, Ts, Is) ==
    [epochs : Es, n_batches : Bs, n_updates_per_batch : Us, total_steps : Ts,
     checkpoint_interval : Is, eval_interval : Is]

MakeConfig(l, ev, n, len, unfrozen) ==
    [epochs |-> l.epochs, n_batches |-> l.n_batches,
     n_updates_per_batch |-> l.n_updates_per_batch,
     total_steps |-> l.total_steps,
     checkpoint_interval |-> l.checkpoint_interval,
     eval_interval |-> l.eval_interval,
     reward_fn |-> ev.reward_fn, metric_fn |-> ev.metric_fn,
     metric_names |-> ev.metric_names,
     nproc |-> n, n_blocks |-> len, num_layers_unfrozen |-> unfrozen]

\* The run of section 8 of the specification: total_steps=10,
\* checkpoint_interval=5, eval_interval=10, 1 epoch, 10 batches, 1 update.
ScenarioLoop ==
    [epochs |-> 1, n_batches |-> 10, n_updates_per_batch |-> 1, total_steps |-> 10,
     checkpoint_interval |-> 5, eval_interval |-> 10]

IsScenario ==
    /\ config.epochs = 1 /\ config.n_batches = 10 /\ config.n_updates_per_batch = 1
    /\ config.total_steps = 10 /\ config.checkpoint_interval = 5
    /\ config.eval_interval = 10

\* Single-process runs: every small loop shape with at least one update to
\* make, every total_steps from 0, and the scenario.
SingleConfigs ==
    {MakeConfig(l, ev, 1, 2, 1) :
        l \in LoopConfigs(1 .. MaxEpochs, 1 .. MaxBatches, 1 .. MaxUpdates,
                          0 .. MaxTotalSteps, 1 .. MaxInterval)
              \cup {ScenarioLoop},
        ev \in {c \in EvalConfigs : c.metric_names \subseteq {"m1"}}}

\* Multi-process runs.
DistConfigs ==
    {MakeConfig(l, ev, n, 2, 1) :
        l \in LoopConfigs({1, 2}, {2}, {1, 2}, 1 .. MaxTotalSteps, {1, MaxInterval}),
        ev \in {c \in EvalConfigs : c.metric_fn => c.metric_names = MetricNames},
        n \in 2 .. MaxProcs}

\* Multi-process runs for the liveness check: a run that ends at line 252
\* and a run that ends by exhausting its loops, each with the evaluation
\* cadence at every update and at every MaxInterval-th.
FairConfigs ==
    {MakeConfig(l, ev, n, 2, 1) :
        l \in LoopConfigs({1}, {2}, {1}, {2, 3}, {1, MaxInterval}),
        ev \in {c \in EvalConfigs : c.metric_fn => c.metric_names = MetricNames},
        n \in 2 .. MaxProcs}

\* The inputs of evaluate(): a tokenizer or none, max_length, nb batches of
\* rows generations each, of any width on every process, and a reward_fn.
EvalInputs(n, Bs, Rs, Ws, Ls, As) ==
    UNION {{[tokenizer |-> tok, eos_token_id |-> 2, max_length |-> len,
             n_eval_batches |-> nb, rows |-> r, width |-> w, reward |-> rw] :
               tok \in BOOLEAN, len \in Ls, r \in Rs, rw \in [a : As, c : As],
               w \in [(0 .. (n - 1)) \X (1 .. nb) -> Ws]} : nb \in Bs}

\* One batch of one generation, shorter than max_length, and no tokenizer.
SimpleEvalInput(n) ==
    [tokenizer |-> FALSE, eos_token_id |-> 2, max_length |-> 2,
     n_eval_batches |-> 1, rows |-> 1,
     width |-> [x \in (0 .. (n - 1)) \X {1} |-> 1], reward |-> [a |-> 1, c |-> 0]]

\* The configurations of the runs of evaluate() alone.
EvalRunConfigs ==
    {MakeConfig(l, ev, n, 2, 1) :
        l \in LoopConfigs({1}, {1}, {1}, {1}, {1}),
        ev \in {c \in EvalConfigs : ~c.metric_fn},
        n \in {1, 2}}

\* Runs with calls from outside learn(): short loops, and a block list
\* frozen entirely, in part and not at all.
CallConfigs ==
    {MakeConfig(l, ev, 1, 3, unfrozen) :
        l \in LoopConfigs({1}, {1, 2}, {1}, {1, 2}, {1, 2}),
        ev \in {c \in EvalConfigs : ~c.metric_fn},
        unfrozen \in {-1, 0, 1, 2, 4}}

\* Construction: every block list and every num_layers_unfrozen around it.
FreezeConfigs ==
    {MakeConfig(l, ev, 1, len, unfrozen) :
        l \in LoopConfigs({1}, {1}, {1}, {1}, {1}),
        ev \in {c \in EvalConfigs : ~c.reward_fn /\ ~c.metric_fn},
        len \in 0 .. MaxBlocks,
        unfrozen \in (-2) .. (MaxBlocks + 2)}

(***************************************************************************)
(* __init__, lines 54-64: the freeze loop.                                 *)
(***************************************************************************)
\* requires_grad after freezing the blocks of list fl, given as positions.
Frozen(len, fl) ==
    [i \in 1 .. len |-> ~(\E j \in 1 .. Len(fl) : fl[j] = i)]

ProcState(c, v) == [p \in 0 .. (c.nproc - 1) |-> v]

\* Everything but the construction state: no learn() has run yet.  The
\* attribute iter_count is assigned first at line 213; whatever it held
\* before is never read.
InitRun(c) ==
    /\ pc = ProcState(c, "idle")
    /\ iter_count \in [0 .. (c.nproc - 1) -> {0}]
    /\ epoch = ProcState(c, 0)
    /\ batch = ProcState(c, 0)
    /\ upd = ProcState(c, 0)
    /\ n_loss = ProcState(c, 0)
    /\ n_backward = ProcState(c, 0)
    /\ n_opt_step = ProcState(c, 0)
    /\ n_zero_grad = ProcState(c, 0)
    /\ n_sched_step = ProcState(c, 0)
    /\ n_evaluate = ProcState(c, 0)
    /\ n_gather = ProcState(c, 0)
    /\ eval_kind = ProcState(c, "none")
    /\ stats = ProcState(c, {})
    /\ retval = ProcState(c, [kind |-> "pending", keys |-> {}])
    /\ trace = ProcState(c, <<>>)
    /\ all_samples = ProcState(c, <<>>)
    /\ gathered = ProcState(c, <<>>)
    /\ n_reward_fn = ProcState(c, 0)
    /\ reward_arg = ProcState(c, <<>>)
    /\ rewards = ProcState(c, <<>>)
    /\ mean_reward = ProcState(c, NoMean)
    /\ n_tracker_log = ProcState(c, 0)

\* The state after construction, with evaluation inputs i.
ConstructedWith(c, i) ==
    /\ config = c
    /\ requires_grad =
          Frozen(c.n_blocks, gpt_blocks_to_freeze(c.n_blocks, c.num_layers_unfrozen))
    /\ freeze_i = Len(gpt_blocks_to_freeze(c.n_blocks, c.num_layers_unfrozen)) + 1
    /\ eval_in = i
    /\ InitRun(c)

Constructed(c) == ConstructedWith(c, SimpleEvalInput(c.nproc))

Init == \E c \in SingleConfigs : Constructed(c)

DistInit == \E c \in DistConfigs : Constructed(c)

FairDistInit == \E c \in FairConfigs : Constructed(c)

CallInit == \E c \in CallConfigs : Constructed(c)

\* evaluate() alone, on one process with one or two evaluation batches and
\* on two with one batch each, over every evaluation input within the
\* bounds; reward_fn unset takes one reward_fn only.
EvalInit ==
    \E c \in EvalRunConfigs :
        \E i \in EvalInputs(c.nproc, IF c.nproc = 1 THEN {1, 2} ELSE {1},
                            1 .. MaxRows, 0 .. MaxWidth, 1 .. MaxLength, {0, 1}) :
            /\ ~c.reward_fn => i.reward = [a |-> 1, c |-> 0]
            /\ ConstructedWith(c, i)

\* The state of __init__ at line 55, before the freeze list is computed:
\* every block still has requires_grad = True.
FreezeInit ==
    \E c \in FreezeConfigs :
        /\ config = c
        /\ requires_grad = [i \in 1 .. c.n_blocks |-> TRUE]
        /\ freeze_i = 1
        /\ eval_in = SimpleEvalInput(c.nproc)
        /\ InitRun(c)

\* Lines 63-64: one iteration of `for m in gpt_blocks_to_freeze`.
FreezeBlock ==
    LET fl == gpt_blocks_to_freeze(config.n_blocks, config.num_layers_unfrozen)
    IN  /\ freeze_i <= Len(fl)
        /\ requires_grad' = [requires_grad EXCEPT ![fl[freeze_i]] = FALSE]
        /\ freeze_i' = freeze_i + 1
        /\ UNCHANGED <<config, dataVars, pc, iter_count, loopVars, stepVars, evalVars,
                       retval, trace>>

FreezeDone == freeze_i > Len(gpt_blocks_to_freeze(config.n_blocks, config.num_layers_unfrozen))

(***************************************************************************)
(* learn(), lines 203-256.                                                 *)
(***************************************************************************)
Goto(p, label) == pc' = [pc EXCEPT ![p] = label]

\* A plausible slip: learn() switching gradients back on for the whole
\* model before training.
LearnBegin_Mut(p) ==
    /\ pc[p] = "idle"
    /\ FreezeDone
    /\ requires_grad' = [i \in DOMAIN requires_grad |-> TRUE]
    /\ iter_count' = [iter_count EXCEPT ![p] = 0]
    /\ epoch' = [epoch EXCEPT ![p] = 0]
    /\ Goto(p, "epoch_head")
    /\ UNCHANGED <<config, freeze_i, dataVars, batch, upd, stepVars, evalVars, retval,
                   trace>>

\* Lines 208-213: prepare_learning(), the progress bar, iter_count = 0.
LearnBegin(p) ==
    /\ pc[p] = "idle"
    /\ FreezeDone
    /\ iter_count' = [iter_count EXCEPT ![p] = 0]
    /\ epoch' = [epoch EXCEPT ![p] = 0]
    /\ Goto(p, "epoch_head")
    /\ UNCHANGED <<initVars, dataVars, batch, upd, stepVars, evalVars, retval, trace>>

\* Line 215: `for _ in range(epochs)`; falling out of it ends learn(),
\* which then returns None.
EpochHead(p) ==
    /\ pc[p] = "epoch_head"
    /\ IF epoch[p] < config.epochs
       THEN /\ batch' = [batch EXCEPT ![p] = 0]
            /\ Goto(p, "batch_head")
            /\ UNCHANGED retval
       ELSE /\ retval' = [retval EXCEPT ![p] = [kind |-> "none", keys |-> {}]]
            /\ Goto(p, "done")
            /\ UNCHANGED batch
    /\ UNCHANGED <<initVars, dataVars, iter_count, epoch, upd, stepVars, evalVars, trace>>

\* Line 216: `for batch in self.train_dataloader`.
BatchHead(p) ==
    /\ pc[p] = "batch_head"
    /\ IF batch[p] < config.n_batches
       THEN /\ upd' = [upd EXCEPT ![p] = 0]
            /\ Goto(p, "update_head")
       ELSE /\ Goto(p, "post_epoch")
            /\ UNCHANGED upd
    /\ UNCHANGED <<initVars, dataVars, iter_count, epoch, batch, stepVars, evalVars, retval, trace>>

\* Line 217: `for _ in range(self.n_updates_per_batch)`.
UpdateHead(p) ==
    /\ pc[p] = "update_head"
    /\ IF upd[p] < config.n_updates_per_batch
       THEN Goto(p, "loss")
       ELSE Goto(p, "post_backward")
    /\ UNCHANGED <<initVars, dataVars, iter_count, loopVars, stepVars, evalVars, retval, trace>>

\* Lines 218-220: loss, stats = self.loss(batch).
Loss(p) ==
    /\ pc[p] = "loss"
    /\ n_loss' = [n_loss EXCEPT ![p] = @ + 1]
    /\ Goto(p, "backward")
    /\ UNCHANGED <<initVars, dataVars, iter_count, loopVars, n_backward, n_opt_step,
                   n_zero_grad, n_sched_step, evalVars, retval, trace>>

\* Lines 222-223: accelerator.backward(loss) is entered.  The gradient
\* all-reduce is a collective call.
BackwardCall(p) ==
    /\ pc[p] = "backward"
    /\ n_backward' = [n_backward EXCEPT ![p] = @ + 1]
    /\ Goto(p, "backward_wait")
    /\ UNCHANGED <<initVars, dataVars, iter_count, loopVars, n_loss, n_opt_step,
                   n_zero_grad, n_sched_step, evalVars, retval, trace>>

\* Lines 223-224: backward returns once every process has entered it.
BackwardReturn(p) ==
    /\ pc[p] = "backward_wait"
    /\ \A q \in Procs : n_backward[q] >= n_backward[p]
    /\ Goto(p, "opt_step")
    /\ UNCHANGED <<initVars, dataVars, iter_count, loopVars, stepVars, evalVars, retval, trace>>

\* Line 226: self.opt.step().
OptStep(p) ==
    /\ pc[p] = "opt_step"
    /\ n_opt_step' = [n_opt_step EXCEPT ![p] = @ + 1]
    /\ Goto(p, "zero_grad")
    /\ UNCHANGED <<initVars, dataVars, iter_count, loopVars, n_loss, n_backward,
                   n_zero_grad, n_sched_step, evalVars, retval, trace>>

\* Line 227: self.opt.zero_grad().
ZeroGrad(p) ==
    /\ pc[p] = "zero_grad"
    /\ n_zero_grad' = [n_zero_grad EXCEPT ![p] = @ + 1]
    /\ Goto(p, "sched_step")
    /\ UNCHANGED <<initVars, dataVars, iter_count, loopVars, n_loss, n_backward,
                   n_opt_step, n_sched_step, evalVars, retval, trace>>

\* A plausible slip: the scheduler stepped once per batch, on its last
\* repetition, instead of once per update.
SchedStep_Mut(p) ==
    /\ pc[p] = "sched_step"
    /\ IF upd[p] + 1 = config.n_updates_per_batch
       THEN n_sched_step' = [n_sched_step EXCEPT ![p] = @ + 1]
       ELSE UNCHANGED n_sched_step
    /\ Goto(p, "incr")
    /\ UNCHANGED <<initVars, dataVars, iter_count, loopVars, n_loss, n_backward,
                   n_opt_step, n_zero_grad, evalVars, retval, trace>>

\* Line 228: self.scheduler.step().
SchedStep(p) ==
    /\ pc[p] = "sched_step"
    /\ n_sched_step' = [n_sched_step EXCEPT ![p] = @ + 1]
    /\ Goto(p, "incr")
    /\ UNCHANGED <<initVars, dataVars, iter_count, loopVars, n_loss, n_backward,
                   n_opt_step, n_zero_grad, evalVars, retval, trace>>

\* A plausible slip: the termination test placed ahead of the cadence
\* triggers.
IncrIter_Mut(p) ==
    /\ pc[p] = "incr"
    /\ iter_count' = [iter_count EXCEPT ![p] = @ + 1]
    /\ trace' = [trace EXCEPT ![p] =
                    Append(@, Event(p, "update", iter_count[p] + 1, "none", {}))]
    /\ Goto(p, "term_check")
    /\ UNCHANGED <<initVars, dataVars, loopVars, stepVars, evalVars, retval>>

\* Line 229: self.iter_count += 1, which ends the update.
IncrIter(p) ==
    /\ pc[p] = "incr"
    /\ iter_count' = [iter_count EXCEPT ![p] = @ + 1]
    /\ trace' = [trace EXCEPT ![p] =
                    Append(@, Event(p, "update", iter_count[p] + 1, "none", {}))]
    /\ Goto(p, "ckpt_check")
    /\ UNCHANGED <<initVars, dataVars, loopVars, stepVars, evalVars, retval>>

\* Lines 231-232: the checkpoint cadence; save() is lines 126-128.
CheckpointCadence(p) ==
    /\ pc[p] = "ckpt_check"
    /\ IF CheckpointDue(p)
       THEN Record(p, "save", "cadence", {})
       ELSE UNCHANGED trace
    /\ Goto(p, "eval_check")
    /\ UNCHANGED <<initVars, dataVars, iter_count, loopVars, stepVars, evalVars, retval>>

\* A plausible slip: the log call moved out of the `if`, made at every
\* update.
EvalCadence_Mut(p) ==
    /\ pc[p] = "eval_check"
    /\ IF EvalDue(p)
       THEN /\ eval_kind' = [eval_kind EXCEPT ![p] = "cadence"]
            /\ Goto(p, "evaluate")
       ELSE /\ Goto(p, "log")
            /\ UNCHANGED eval_kind
    /\ UNCHANGED <<initVars, dataVars, iter_count, loopVars, stepVars, n_evaluate, n_gather,
                   stats, retval, trace>>

\* Lines 234-235: the evaluation cadence.
EvalCadence(p) ==
    /\ pc[p] = "eval_check"
    /\ IF EvalDue(p)
       THEN /\ eval_kind' = [eval_kind EXCEPT ![p] = "cadence"]
            /\ Goto(p, "evaluate")
       ELSE /\ Goto(p, "term_check")
            /\ UNCHANGED eval_kind
    /\ UNCHANGED <<initVars, dataVars, iter_count, loopVars, stepVars, n_evaluate, n_gather,
                   stats, retval, trace>>

\* Lines 237-244: results.update(stats), the two times, accelerator.log.
\* accelerator.log hands the dict to every tracker of this process.
Log(p) ==
    /\ pc[p] = "log"
    /\ Record(p, "log", "cadence",
              stats[p] \cup LossStatsKeys \cup {"forward_time", "backward_time"})
    /\ n_tracker_log' = [n_tracker_log EXCEPT ![p] = IF HasTrackers(p) THEN @ + 1 ELSE @]
    /\ Goto(p, "term_check")
    /\ UNCHANGED <<initVars, eval_in, all_samples, gathered, rewardVars, iter_count,
                   loopVars, stepVars, evalVars, retval>>

\* Lines 246-250: the progress bar, then the termination test; when it
\* fails the inner loop goes on to its next repetition.
TermCheck(p) ==
    /\ pc[p] = "term_check"
    /\ IF ReachedTotalSteps(p)
       THEN /\ Goto(p, "term_save")
            /\ UNCHANGED upd
       ELSE /\ upd' = [upd EXCEPT ![p] = @ + 1]
            /\ Goto(p, "update_head")
    /\ UNCHANGED <<initVars, dataVars, iter_count, epoch, batch, stepVars, evalVars, retval, trace>>

\* Lines 251-252: the terminal save(), then `return self.evaluate()`.
TermSave(p) ==
    /\ pc[p] = "term_save"
    /\ Record(p, "save", "terminal", {})
    /\ eval_kind' = [eval_kind EXCEPT ![p] = "terminal"]
    /\ Goto(p, "evaluate")
    /\ UNCHANGED <<initVars, dataVars, iter_count, loopVars, stepVars, n_evaluate, n_gather,
                   stats, retval>>

\* A plausible slip: the callback skipped after the last batch of an epoch.
PostBackward_Mut(p) ==
    /\ pc[p] = "post_backward"
    /\ IF batch[p] + 1 < config.n_batches
       THEN Record(p, "post_backward_callback", "none", {})
       ELSE UNCHANGED trace
    /\ batch' = [batch EXCEPT ![p] = @ + 1]
    /\ Goto(p, "batch_head")
    /\ UNCHANGED <<initVars, dataVars, iter_count, epoch, upd, stepVars, evalVars, retval>>

\* Line 254: self.post_backward_callback(), then the next batch.
PostBackward(p) ==
    /\ pc[p] = "post_backward"
    /\ Record(p, "post_backward_callback", "none", {})
    /\ batch' = [batch EXCEPT ![p] = @ + 1]
    /\ Goto(p, "batch_head")
    /\ UNCHANGED <<initVars, dataVars, iter_count, epoch, upd, stepVars, evalVars, retval>>

\* A plausible slip: the callback dedented out of the epoch loop, so that it
\* runs only once, after the last epoch.
PostEpoch_Mut(p) ==
    /\ pc[p] = "post_epoch"
    /\ IF epoch[p] + 1 = config.epochs
       THEN Record(p, "post_epoch_callback", "none", {})
       ELSE UNCHANGED trace
    /\ epoch' = [epoch EXCEPT ![p] = @ + 1]
    /\ Goto(p, "epoch_head")
    /\ UNCHANGED <<initVars, dataVars, iter_count, batch, upd, stepVars, evalVars, retval>>

\* Line 256: self.post_epoch_callback(), then the next epoch.
PostEpoch(p) ==
    /\ pc[p] = "post_epoch"
    /\ Record(p, "post_epoch_callback", "none", {})
    /\ epoch' = [epoch EXCEPT ![p] = @ + 1]
    /\ Goto(p, "epoch_head")
    /\ UNCHANGED <<initVars, dataVars, iter_count, batch, upd, stepVars, evalVars, retval>>

(***************************************************************************)
(* evaluate(), lines 134-201.                                              *)
(***************************************************************************)
\* Lines 136-156: the generation loop; stats["generate_time"].
EvalGenerate(p) ==
    /\ pc[p] = "evaluate"
    /\ n_evaluate' = [n_evaluate EXCEPT ![p] = @ + 1]
    /\ stats' = [stats EXCEPT ![p] = {"generate_time"}]
    /\ all_samples' = [all_samples EXCEPT ![p] = VStack(p, eval_in.n_eval_batches)]
    /\ Goto(p, "gather")
    /\ UNCHANGED <<initVars, eval_in, gathered, rewardVars, n_tracker_log, iter_count,
                   loopVars, stepVars, n_gather, eval_kind, retval, trace>>

\* Process p entering its next gather finds every other process in it.
LastToGather(p) == \A q \in Procs \ {p} : n_gather[q] > n_gather[p]

\* A plausible slip: the gather moved under `if is_main_process`.
GatherCall_Mut(p) ==
    /\ pc[p] = "gather"
    /\ IF is_main_process(p)
       THEN /\ n_gather' = [n_gather EXCEPT ![p] = @ + 1]
            /\ gathered' = IF LastToGather(p)
                           THEN [q \in Procs |-> GatherRanks(all_samples, config.nproc)]
                           ELSE gathered
            /\ Goto(p, "gather_wait")
       ELSE /\ Goto(p, "eval_main")
            /\ UNCHANGED <<n_gather, gathered>>
    /\ UNCHANGED <<initVars, eval_in, all_samples, rewardVars, n_tracker_log, iter_count,
                   loopVars, stepVars, n_evaluate, eval_kind, stats, retval, trace>>

\* Line 158: accelerator.gather is entered, by every process.  The
\* collective completes when its last process enters: every process is
\* then handed the tensors of all of them, in rank order.
GatherCall(p) ==
    /\ pc[p] = "gather"
    /\ n_gather' = [n_gather EXCEPT ![p] = @ + 1]
    /\ gathered' = IF LastToGather(p)
                   THEN [q \in Procs |-> GatherRanks(all_samples, config.nproc)]
                   ELSE gathered
    /\ Goto(p, "gather_wait")
    /\ UNCHANGED <<initVars, eval_in, all_samples, rewardVars, n_tracker_log, iter_count,
                   loopVars, stepVars, n_evaluate, eval_kind, stats, retval, trace>>

\* Line 158: gather returns once every process has entered it.
GatherReturn(p) ==
    /\ pc[p] = "gather_wait"
    /\ \A q \in Procs : n_gather[q] >= n_gather[p]
    /\ Goto(p, "eval_main")
    /\ UNCHANGED <<initVars, dataVars, iter_count, loopVars, stepVars, evalVars, retval, trace>>

\* The keys lines 160-199 add to stats on the main process.
MainStatsKeys ==
    {"samples"}
    \cup (IF config.reward_fn THEN {"mean_reward"} ELSE {})
    \cup (IF config.metric_fn
          THEN {"metric_time"} \cup {MetricKey(m) : m \in config.metric_names}
          ELSE {})

\* A plausible slip: the main-process block run by every process.
StatsKeysAfterGather_Mut(p) == stats[p] \cup MainStatsKeys

StatsKeysAfterGather(p) ==
    IF is_main_process(p) THEN stats[p] \cup MainStatsKeys ELSE stats[p]

\* Lines 160-201: the main-process block and `return stats`; the cadence
\* call returns into line 237, the terminal one ends learn() (line 252),
\* and a call from outside learn() returns to where it was made.
EvalReturn(p) ==
    /\ pc[p] = "eval_main"
    /\ stats' = [stats EXCEPT ![p] = StatsKeysAfterGather(p)]
    /\ Record(p, "evaluate", eval_kind[p], StatsKeysAfterGather(p))
    /\ IF eval_kind[p] = "terminal"
       THEN /\ retval' = [retval EXCEPT ![p] =
                             [kind |-> "stats", keys |-> StatsKeysAfterGather(p)]]
            /\ Goto(p, "done")
       ELSE /\ Goto(p, IF eval_kind[p] = "cadence" THEN "log"
                       ELSE IF eval_kind[p] = "before_learn" THEN "idle"
                       ELSE "done")
            /\ UNCHANGED retval
    /\ IF is_main_process(p) /\ config.reward_fn
       THEN /\ n_reward_fn' = [n_reward_fn EXCEPT ![p] = @ + 1]
            /\ reward_arg' = [reward_arg EXCEPT ![p] = RewardInput(p)]
            /\ rewards' = [rewards EXCEPT ![p] = reward_fn(RewardInput(p))]
            /\ mean_reward' = [mean_reward EXCEPT ![p] = Mean(reward_fn(RewardInput(p)))]
       ELSE /\ mean_reward' = [mean_reward EXCEPT ![p] = NoMean]
            /\ UNCHANGED <<n_reward_fn, reward_arg, rewards>>
    /\ UNCHANGED <<initVars, eval_in, all_samples, gathered, n_tracker_log, iter_count,
                   loopVars, stepVars, n_evaluate, n_gather, eval_kind>>

(***************************************************************************)
(* generate(), save() and evaluate() called by the user, outside learn().  *)
(***************************************************************************)
\* The user calls between runs of learn(): before it starts or after it
\* has returned.
OutsideLearn(p) == pc[p] \in {"idle", "done"}

CallSite(p) == IF pc[p] = "idle" THEN "before_learn" ELSE "after_learn"

\* The calls from outside learn() that process p has made.
OutsideCalls(p) ==
    {i \in 1 .. Len(trace[p]) : trace[p][i].kind \in {"before_learn", "after_learn"}}

\* Lines 105-116: generate() moves its inputs to the device and samples
\* under torch.no_grad().
CallGenerate(p) ==
    /\ OutsideLearn(p)
    /\ FreezeDone
    /\ Cardinality(OutsideCalls(p)) < MaxCalls
    /\ Record(p, "generate", CallSite(p), {})
    /\ UNCHANGED <<initVars, dataVars, pc, iter_count, loopVars, stepVars, evalVars, retval>>

\* A plausible slip: a save() that counts as a step of the run.
CallSave_Mut(p) ==
    /\ OutsideLearn(p)
    /\ FreezeDone
    /\ Cardinality(OutsideCalls(p)) < MaxCalls
    /\ iter_count' = [iter_count EXCEPT ![p] = @ + 1]
    /\ Record(p, "save", CallSite(p), {})
    /\ UNCHANGED <<initVars, dataVars, pc, loopVars, stepVars, evalVars, retval>>

\* Lines 126-128: save() hands the checkpoint to accelerator.save_state.
CallSave(p) ==
    /\ OutsideLearn(p)
    /\ FreezeDone
    /\ Cardinality(OutsideCalls(p)) < MaxCalls
    /\ Record(p, "save", CallSite(p), {})
    /\ UNCHANGED <<initVars, dataVars, pc, iter_count, loopVars, stepVars, evalVars, retval>>

\* Line 134: evaluate() entered from outside learn().
CallEvaluate(p) ==
    /\ OutsideLearn(p)
    /\ FreezeDone
    /\ Cardinality(OutsideCalls(p)) < MaxCalls
    /\ eval_kind' = [eval_kind EXCEPT ![p] = CallSite(p)]
    /\ Goto(p, "evaluate")
    /\ UNCHANGED <<initVars, dataVars, iter_count, loopVars, stepVars, n_evaluate, n_gather,
                   stats, retval, trace>>

(***************************************************************************)
(* Specifications.                                                         *)
(***************************************************************************)
Next ==
    \/ \E p \in Procs : LearnBegin(p)
    \/ \E p \in Procs : EpochHead(p)
    \/ \E p \in Procs : BatchHead(p)
    \/ \E p \in Procs : UpdateHead(p)
    \/ \E p \in Procs : Loss(p)
    \/ \E p \in Procs : BackwardCall(p)
    \/ \E p \in Procs : BackwardReturn(p)
    \/ \E p \in Procs : OptStep(p)
    \/ \E p \in Procs : ZeroGrad(p)
    \/ \E p \in Procs : SchedStep(p)
    \/ \E p \in Procs : IncrIter(p)
    \/ \E p \in Procs : CheckpointCadence(p)
    \/ \E p \in Procs : EvalCadence(p)
    \/ \E p \in Procs : EvalGenerate(p)
    \/ \E p \in Procs : GatherCall(p)
    \/ \E p \in Procs : GatherReturn(p)
    \/ \E p \in Procs : EvalReturn(p)
    \/ \E p \in Procs : Log(p)
    \/ \E p \in Procs : TermCheck(p)
    \/ \E p \in Procs : TermSave(p)
    \/ \E p \in Procs : PostBackward(p)
    \/ \E p \in Procs : PostEpoch(p)

\* The steps of process p, for the fairness condition.
Step(p) ==
    /\ p \in Procs
    /\ \/ LearnBegin(p)
       \/ EpochHead(p)
       \/ BatchHead(p)
       \/ UpdateHead(p)
       \/ Loss(p)
       \/ BackwardCall(p)
       \/ BackwardReturn(p)
       \/ OptStep(p)
       \/ ZeroGrad(p)
       \/ SchedStep(p)
       \/ IncrIter(p)
       \/ CheckpointCadence(p)
       \/ EvalCadence(p)
       \/ EvalGenerate(p)
       \/ GatherCall(p)
       \/ GatherReturn(p)
       \/ EvalReturn(p)
       \/ Log(p)
       \/ TermCheck(p)
       \/ TermSave(p)
       \/ PostBackward(p)
       \/ PostEpoch(p)

\* One process (WORLD_SIZE = 1).
Spec == Init /\ [][Next]_vars

\* Several processes.
DistSpec == DistInit /\ [][Next]_vars

\* Every process is an operating-system process of its own: none of them
\* stops while it has a step to take.
FairDistSpec ==
    FairDistInit /\ [][Next]_vars /\ \A p \in 0 .. (MaxProcs - 1) : WF_vars(Step(p))

\* One process whose user also calls generate(), save() and evaluate()
\* before and after learn().
CallNext ==
    \/ Next
    \/ \E p \in Procs : CallGenerate(p)
    \/ \E p \in Procs : CallSave(p)
    \/ \E p \in Procs : CallEvaluate(p)

CallSpec == CallInit /\ [][CallNext]_vars

\* evaluate() alone, called by every process from outside learn().
EvalNext ==
    \/ \E p \in Procs : CallEvaluate(p)
    \/ \E p \in Procs : EvalGenerate(p)
    \/ \E p \in Procs : GatherCall(p)
    \/ \E p \in Procs : GatherReturn(p)
    \/ \E p \in Procs : EvalReturn(p)

EvalSpec == EvalInit /\ [][EvalNext]_vars

\* Construction alone.
FreezeNext == FreezeBlock

FreezeSpec == FreezeInit /\ [][FreezeNext]_vars

(***************************************************************************)
(* Reading the trace of a process.                                         *)
(***************************************************************************)
Max(a, b) == IF a >= b THEN a ELSE b

Min(a, b) == IF a <= b THEN a ELSE b

\* E * B * U: the updates the three loops can make.
TotalUpdates == config.epochs * config.n_batches * config.n_updates_per_batch

\* Positions in the trace of p of the calls of ev made from call site kind.
Calls(p, ev, kind) ==
    {i \in 1 .. Len(trace[p]) : trace[p][i].ev = ev /\ trace[p][i].kind = kind}

\* The same, made while iter_count was k.
CallsAt(p, ev, kind, k) == {i \in Calls(p, ev, kind) : trace[p][i].k = k}

\* The iter_count values of the calls of ev by p, in order.
RECURSIVE StepsOf(_, _, _)
StepsOf(t, ev, kind) ==
    IF t = <<>> THEN <<>>
    ELSE IF Head(t).ev = ev /\ Head(t).kind = kind
         THEN <<Head(t).k>> \o StepsOf(Tail(t), ev, kind)
         ELSE StepsOf(Tail(t), ev, kind)

\* learn() has returned on p through lines 251-252: its last two calls are
\* the terminal save() and the terminal evaluate(), whose stats it returns.
EndsWithFinalSaveEval(p) ==
    LET t == trace[p]
        n == Len(t)
    IN  /\ n >= 2
        /\ t[n - 1].ev = "save" /\ t[n - 1].kind = "terminal"
        /\ t[n].ev = "evaluate" /\ t[n].kind = "terminal"
        /\ t[n - 1].k = iter_count[p] /\ t[n].k = iter_count[p]
        /\ Cardinality(Calls(p, "save", "terminal")) = 1
        /\ Cardinality(Calls(p, "evaluate", "terminal")) = 1
        /\ retval[p] = [kind |-> "stats", keys |-> t[n].keys]

\* learn() has returned on p by falling out of the epoch loop.
EndsByExhaustion(p) ==
    /\ Calls(p, "save", "terminal") = {}
    /\ Calls(p, "evaluate", "terminal") = {}
    /\ retval[p] = [kind |-> "none", keys |-> {}]

(***************************************************************************)
(* C1.  As claimed: every run of learn() ends with a final save() followed *)
(* by a final evaluate() whose stats it returns, and finishes exactly when *)
(* iter_count >= total_steps.                                              *)
(***************************************************************************)
C1_EveryRunEndsWithFinalSaveEval ==
    \A p \in Procs :
        pc[p] = "done" =>
            iter_count[p] >= config.total_steps /\ EndsWithFinalSaveEval(p)

(***************************************************************************)
(* C1, amended.  A run of learn() ends with exactly one terminal save()    *)
(* followed by the terminal evaluate(), whose stats it returns, when       *)
(* E*B*U >= max(total_steps, 1), and then iter_count >= total_steps; when  *)
(* E*B*U < max(total_steps, 1) it ends by exhausting its loops after       *)
(* E*B*U updates, without terminal save or evaluation, returning None.     *)
(***************************************************************************)
C1_FinalSaveEvalIffBudgetReached ==
    \A p \in Procs :
        pc[p] = "done" =>
            IF TotalUpdates >= Max(config.total_steps, 1)
            THEN iter_count[p] >= config.total_steps /\ EndsWithFinalSaveEval(p)
            ELSE iter_count[p] = TotalUpdates /\ EndsByExhaustion(p)

\* learn() returned the terminal stats with batches and epochs still to go.
C1_Witness ==
    \E p \in Procs :
        /\ pc[p] = "done"
        /\ EndsWithFinalSaveEval(p)
        /\ epoch[p] + 1 < config.epochs
        /\ batch[p] + 1 < config.n_batches

(***************************************************************************)
(* C2.  As claimed: when learn() finishes, iter_count equals               *)
(* min(E*B*U, total_steps), for every total_steps value.                   *)
(***************************************************************************)
C2_FinalIterCountIsMin ==
    \A p \in Procs :
        pc[p] = "done" => iter_count[p] = Min(TotalUpdates, config.total_steps)

(***************************************************************************)
(* C2, amended.  When learn() finishes, iter_count equals                  *)
(* min(E*B*U, max(total_steps, 1)): the termination test follows the       *)
(* update, so a run with total_steps <= 0 still makes its first update.    *)
(***************************************************************************)
C2_FinalIterCountIsMinOfAtLeastOne ==
    \A p \in Procs :
        pc[p] = "done" =>
            iter_count[p] = Min(TotalUpdates, Max(config.total_steps, 1))

\* A finished run that total_steps cut short of the E*B*U updates.
C2_Witness ==
    \E p \in Procs :
        /\ pc[p] = "done"
        /\ config.total_steps >= 2
        /\ TotalUpdates > config.total_steps
        /\ iter_count[p] = config.total_steps

(***************************************************************************)
(* C3.  As claimed: with total_steps=10, checkpoint_interval=5,            *)
(* eval_interval=10, 1 epoch, 10 batches and 1 update per batch, a         *)
(* checkpoint is saved at iter_count 5 and 10 and at no other step, and    *)
(* evaluate() runs exactly once in the whole run, at iter_count 10.        *)
(***************************************************************************)
C3_ScenarioOneEvaluation ==
    \A p \in Procs :
        (IsScenario /\ pc[p] = "done") =>
            /\ {trace[p][i].k : i \in Calls(p, "save", "cadence")
                                      \cup Calls(p, "save", "terminal")} = {5, 10}
            /\ Cardinality(Calls(p, "evaluate", "cadence")
                           \cup Calls(p, "evaluate", "terminal")) = 1
            /\ \A i \in Calls(p, "evaluate", "cadence")
                        \cup Calls(p, "evaluate", "terminal") : trace[p][i].k = 10

(***************************************************************************)
(* C3, amended.  In that run save() is called at iter_count 5 and twice at *)
(* iter_count 10 (the cadence save, then the terminal one) and at no other *)
(* step, and evaluate() runs exactly twice, both times at iter_count 10:   *)
(* the cadence evaluation, which is logged, then the terminal one.         *)
(***************************************************************************)
C3_ScenarioTwoEvaluations ==
    \A p \in Procs :
        (IsScenario /\ pc[p] = "done") =>
            /\ StepsOf(trace[p], "save", "cadence") = <<5, 10>>
            /\ StepsOf(trace[p], "save", "terminal") = <<10>>
            /\ StepsOf(trace[p], "evaluate", "cadence") = <<10>>
            /\ StepsOf(trace[p], "evaluate", "terminal") = <<10>>
            /\ StepsOf(trace[p], "log", "cadence") = <<10>>
            /\ \A i \in Calls(p, "evaluate", "cadence") :
                   \A j \in Calls(p, "save", "terminal") : i < j

\* The scenario's run has finished.
C3_Witness ==
    \E p \in Procs : IsScenario /\ pc[p] = "done" /\ iter_count[p] = 10

(***************************************************************************)
(* C4.  Termination is immediate: once an update has made                  *)
(* iter_count >= total_steps, the process only goes through the cadence    *)
(* checks of that update, the terminal save() and the terminal evaluate(), *)
(* and returns; no loss, backward, optimizer step, gradient reset,         *)
(* scheduler step, post_backward_callback or post_epoch_callback follows,  *)
(* whatever repetitions, batches or epochs remain.                         *)
(***************************************************************************)
\* The statements between the increment of line 229 and the return of
\* line 252.
AfterUpdateLabels ==
    {"ckpt_check", "eval_check", "evaluate", "gather", "gather_wait", "eval_main",
     "log", "term_check", "term_save", "done"}

\* An update of this run has made iter_count >= total_steps.
BudgetReached(p) ==
    pc[p] # "idle" /\ iter_count[p] >= 1 /\ iter_count[p] >= config.total_steps

C4_TerminationIsImmediate ==
    /\ [](\A p \in Procs :
             /\ BudgetReached(p) => pc[p] \in AfterUpdateLabels
             /\ (BudgetReached(p) /\ pc[p] = "done") => EndsWithFinalSaveEval(p))
    /\ [][\A p \in Procs :
             BudgetReached(p) =>
                 /\ n_loss'[p] = n_loss[p]
                 /\ n_backward'[p] = n_backward[p]
                 /\ n_opt_step'[p] = n_opt_step[p]
                 /\ n_zero_grad'[p] = n_zero_grad[p]
                 /\ n_sched_step'[p] = n_sched_step[p]
                 /\ iter_count'[p] = iter_count[p]
                 /\ Len(trace'[p]) > Len(trace[p]) =>
                        trace'[p][Len(trace'[p])].ev \in {"save", "evaluate", "log"}
                 /\ pc'[p] \in AfterUpdateLabels]_vars

\* learn() has returned in the middle of a batch, with repetitions, batches
\* and epochs left.
C4_Witness ==
    \E p \in Procs :
        /\ pc[p] = "done"
        /\ BudgetReached(p)
        /\ upd[p] + 1 < config.n_updates_per_batch
        /\ batch[p] + 1 < config.n_batches
        /\ epoch[p] + 1 < config.epochs

(***************************************************************************)
(* C5.  The two cadence triggers are checked after every update and are    *)
(* independent: after iter_count is incremented to k, a cadence save()     *)
(* happens iff k % checkpoint_interval = 0, and a cadence evaluate()       *)
(* followed by one log call of the merged eval stats, loss stats,          *)
(* forward_time and backward_time happens iff k % eval_interval = 0.       *)
(***************************************************************************)
\* p is still inside the cadence checks of its latest update.
CadencePending(p) ==
    \/ pc[p] \in {"incr", "ckpt_check", "eval_check"}
    \/ pc[p] \in {"evaluate", "gather", "gather_wait", "eval_main", "log"}
       /\ eval_kind[p] = "cadence"

\* The updates of p whose cadence checks are behind it.
CheckedUpdates(p) ==
    {k \in 1 .. iter_count[p] : pc[p] # "idle" /\ (k < iter_count[p] \/ ~CadencePending(p))}

C5_CadenceTriggersIndependent ==
    \A p \in Procs :
        \A k \in CheckedUpdates(p) :
            /\ Cardinality(CallsAt(p, "update", "none", k)) = 1
            /\ Cardinality(CallsAt(p, "save", "cadence", k)) =
                   (IF k % config.checkpoint_interval = 0 THEN 1 ELSE 0)
            /\ Cardinality(CallsAt(p, "evaluate", "cadence", k)) =
                   (IF k % config.eval_interval = 0 THEN 1 ELSE 0)
            /\ Cardinality(CallsAt(p, "log", "cadence", k)) =
                   (IF k % config.eval_interval = 0 THEN 1 ELSE 0)
            /\ \A i \in CallsAt(p, "evaluate", "cadence", k) :
                   /\ i + 1 \in CallsAt(p, "log", "cadence", k)
                   /\ trace[p][i + 1].keys =
                          trace[p][i].keys \cup LossStatsKeys
                              \cup {"forward_time", "backward_time"}
            /\ \A i \in CallsAt(p, "save", "cadence", k) :
                   \A j \in CallsAt(p, "update", "none", k) : j < i

\* One update fired both triggers and another only one of them.
C5_Witness ==
    \E p \in Procs :
        \E k1, k2 \in CheckedUpdates(p) :
            /\ CallsAt(p, "save", "cadence", k1) # {}
            /\ CallsAt(p, "log", "cadence", k1) # {}
            /\ (CallsAt(p, "save", "cadence", k2) = {})
                   # (CallsAt(p, "log", "cadence", k2) = {})

(***************************************************************************)
(* C6.  For every block list of length L and every signed integer          *)
(* n = num_layers_unfrozen, construction freezes exactly the leading       *)
(* blocks: all L when n = 0, the first max(0, L - n) when n > 0 (none when *)
(* n > L), and none when n < 0.                                            *)
(***************************************************************************)
\* How many leading blocks the policy is to freeze.
ExpectedFrozen ==
    IF config.num_layers_unfrozen = 0
    THEN config.n_blocks
    ELSE IF config.num_layers_unfrozen > 0
         THEN Max(0, config.n_blocks - config.num_layers_unfrozen)
         ELSE 0

C6_FreezesExactlyLeadingBlocks ==
    /\ Len(requires_grad) = config.n_blocks
    /\ \A i \in 1 .. config.n_blocks :
           ~requires_grad[i] => i <= ExpectedFrozen
    /\ FreezeDone =>
           \A i \in 1 .. config.n_blocks :
               requires_grad[i] <=> i > ExpectedFrozen

\* Construction has frozen some leading blocks and left the last n
\* trainable.
C6_Witness ==
    /\ FreezeDone
    /\ config.num_layers_unfrozen >= 2
    /\ config.n_blocks >= config.num_layers_unfrozen + 2
    /\ ~requires_grad[1]
    /\ requires_grad[config.n_blocks]

(***************************************************************************)
(* C7.  With N >= 2 processes, every process calls the collective gather   *)
(* exactly once per evaluate() call, main process or not, reward_fn and    *)
(* metric_fn set or not; as all processes call evaluate() at the same      *)
(* points of learn(), no process stays blocked forever at a gather.        *)
(***************************************************************************)
\* p is inside evaluate() and has not reached line 158 yet.
BeforeGather(p) == pc[p] = "gather"

C7_GatherOncePerEvaluate ==
    /\ [](\A p \in Procs :
             /\ n_gather[p] = (IF BeforeGather(p) THEN n_evaluate[p] - 1 ELSE n_evaluate[p])
             /\ n_evaluate[p] =
                    Cardinality({i \in 1 .. Len(trace[p]) : trace[p][i].ev = "evaluate"})
                    + (IF pc[p] \in {"gather", "gather_wait", "eval_main"} THEN 1 ELSE 0))
    /\ \A p \in 0 .. (MaxProcs - 1) :
           (p \in Procs /\ pc[p] = "gather_wait") ~> (p \in Procs /\ pc[p] = "eval_main")

\* A process other than the main one has come back from the gather of an
\* evaluation that has neither reward_fn nor metric_fn.
C7_Witness ==
    \E p \in Procs :
        /\ ~is_main_process(p)
        /\ config.nproc >= 2
        /\ ~config.reward_fn /\ ~config.metric_fn
        /\ pc[p] = "eval_main"
        /\ n_gather[p] >= 2

(***************************************************************************)
(* C8.  The stats returned by evaluate() always contain generate_time; on  *)
(* the main process they also contain samples, mean_reward iff reward_fn   *)
(* is set, and metric_time plus one metrics/<name> entry per metric iff    *)
(* metric_fn is set; on every other process they contain none of the       *)
(* samples, mean_reward, metric_time and metrics/<name> keys.              *)
(***************************************************************************)
ReturnedStatsAsClaimed(p, keys) ==
    /\ "generate_time" \in keys
    /\ IF p = 0
       THEN /\ "samples" \in keys
            /\ "mean_reward" \in keys <=> config.reward_fn
            /\ "metric_time" \in keys <=> config.metric_fn
            /\ "metrics/m1" \in keys <=> (config.metric_fn /\ "m1" \in config.metric_names)
            /\ "metrics/m2" \in keys <=> (config.metric_fn /\ "m2" \in config.metric_names)
       ELSE keys \cap {"samples", "mean_reward", "metric_time", "metrics/m1", "metrics/m2"} = {}

C8_EvaluateStatsKeys ==
    \A p \in Procs :
        /\ \A i \in 1 .. Len(trace[p]) :
               trace[p][i].ev = "evaluate" => ReturnedStatsAsClaimed(p, trace[p][i].keys)
        /\ retval[p].kind = "stats" => ReturnedStatsAsClaimed(p, retval[p].keys)

\* With reward_fn and metric_fn set, the main process and another process
\* have both returned from the same evaluate().
C8_Witness ==
    /\ config.nproc >= 2
    /\ config.reward_fn /\ config.metric_fn
    /\ \E p \in Procs :
           /\ ~is_main_process(p)
           /\ Calls(p, "evaluate", "cadence") # {}
           /\ Calls(0, "evaluate", "cadence") # {}

(***************************************************************************)
(* C9.  As claimed: within a learn() run iter_count starts at 0, changes   *)
(* only by +1 and once per update, never decreases and never exceeds       *)
(* total_steps; each update runs loss, backward, optimizer step, gradient  *)
(* reset, scheduler step, increment in that order, so at every update      *)
(* boundary the optimizer and scheduler step counts both equal iter_count. *)
(***************************************************************************)
\* p is between the loss of line 219 and the increment of line 229.
InsideUpdate(p) ==
    pc[p] \in {"backward", "backward_wait", "opt_step", "zero_grad", "sched_step", "incr"}

\* The calls of one update come in the order of lines 219-229: each count
\* is at most one ahead of the next, and all are equal between updates.
UpdateOrder(p) ==
    /\ n_loss[p] >= n_backward[p]
    /\ n_backward[p] >= n_opt_step[p]
    /\ n_opt_step[p] >= n_zero_grad[p]
    /\ n_zero_grad[p] >= n_sched_step[p]
    /\ n_sched_step[p] >= iter_count[p]
    /\ iter_count[p] >= n_loss[p] - 1
    /\ ~InsideUpdate(p) =>
           /\ n_loss[p] = iter_count[p]
           /\ n_opt_step[p] = iter_count[p]
           /\ n_sched_step[p] = iter_count[p]

C9_IterCountWithinTotalSteps ==
    \A p \in Procs :
        pc[p] # "idle" =>
            /\ iter_count[p] >= 0
            /\ iter_count[p] <= config.total_steps
            /\ UpdateOrder(p)

(***************************************************************************)
(* C9, amended.  The same, except that iter_count never exceeds            *)
(* max(total_steps, 1): the termination test follows the increment, so a   *)
(* run with total_steps <= 0 reaches iter_count = 1.                       *)
(***************************************************************************)
C9_IterCountInLockstep ==
    /\ [](\A p \in Procs :
             pc[p] # "idle" =>
                 /\ iter_count[p] >= 0
                 /\ iter_count[p] <= Max(config.total_steps, 1)
                 /\ UpdateOrder(p))
    /\ [][\A p \in Procs :
             /\ (pc[p] = "idle" /\ pc'[p] # "idle") => iter_count'[p] = 0
             /\ (pc[p] # "idle" /\ iter_count'[p] # iter_count[p]) =>
                    /\ iter_count'[p] = iter_count[p] + 1
                    /\ pc[p] = "incr"
                    /\ n_sched_step[p] = iter_count'[p]
                    /\ n_opt_step[p] = iter_count'[p]]_vars

\* A run at the boundary after its second update, total_steps not reached.
C9_Witness ==
    \E p \in Procs :
        /\ pc[p] = "update_head"
        /\ iter_count[p] = 2
        /\ n_opt_step[p] = 2
        /\ n_sched_step[p] = 2
        /\ iter_count[p] < config.total_steps

(***************************************************************************)
(* C10.  post_backward_callback is invoked exactly once for each batch     *)
(* whose n_updates_per_batch updates all completed without triggering      *)
(* termination, after the last update of that batch and before the first   *)
(* update of the next batch; never for the batch during which learn()      *)
(* terminates, and never between two updates of the same batch.            *)
(***************************************************************************)
\* Positions in the trace of p of the calls of ev made in batch b of epoch e.
InBatch(p, ev, e, b) ==
    {i \in 1 .. Len(trace[p]) :
        trace[p][i].ev = ev /\ trace[p][i].e = e /\ trace[p][i].b = b}

\* Batch b of epoch e comes before batch b2 of epoch e2.
BatchBefore(e, b, e2, b2) == e < e2 \/ (e = e2 /\ b < b2)

\* learn() terminated (line 250) during batch b of epoch e.
TerminatedIn(p, e, b) ==
    \E i \in InBatch(p, "save", e, b) : trace[p][i].kind = "terminal"

\* The batch p is in; at line 215 the batch loop has not started yet.
CurrentBatch(p) == IF pc[p] = "epoch_head" THEN 0 ELSE batch[p]

\* p has left batch b of epoch e behind without terminating in it.
BatchCompleted(p, e, b) ==
    /\ pc[p] # "idle"
    /\ ~TerminatedIn(p, e, b)
    /\ \/ BatchBefore(e, b, epoch[p], CurrentBatch(p))
       \/ (pc[p] = "done" /\ retval[p].kind = "none")

C10_PostBackwardOncePerCompletedBatch ==
    \A p \in Procs :
        \A e \in 0 .. (config.epochs - 1) :
            \A b \in 0 .. (config.n_batches - 1) :
                LET cb == InBatch(p, "post_backward_callback", e, b)
                    up == InBatch(p, "update", e, b)
                IN  /\ Cardinality(cb) = (IF BatchCompleted(p, e, b) THEN 1 ELSE 0)
                    /\ cb # {} =>
                           /\ Cardinality(up) = config.n_updates_per_batch
                           /\ \A j \in cb :
                                  /\ \A i \in up : i < j
                                  /\ \A i \in 1 .. Len(trace[p]) :
                                         trace[p][i].ev = "update" =>
                                             IF i < j
                                             THEN ~BatchBefore(e, b, trace[p][i].e,
                                                               trace[p][i].b)
                                             ELSE BatchBefore(e, b, trace[p][i].e,
                                                              trace[p][i].b)

\* A run that completed a batch of two updates, called the callback, and
\* then terminated during a later batch, which got no callback.
C10_Witness ==
    \E p \in Procs :
        /\ pc[p] = "done"
        /\ config.n_updates_per_batch >= 2
        /\ InBatch(p, "post_backward_callback", 0, 0) # {}
        /\ \E e \in 0 .. (config.epochs - 1), b \in 0 .. (config.n_batches - 1) :
               TerminatedIn(p, e, b) /\ InBatch(p, "post_backward_callback", e, b) = {}

(***************************************************************************)
(* C11.  post_epoch_callback is invoked exactly once for each epoch in     *)
(* which every batch was processed without termination, after the          *)
(* post_backward_callback of the epoch's last batch and before the first   *)
(* update of the next epoch; it is not invoked for the epoch during which  *)
(* learn() terminates.                                                     *)
(***************************************************************************)
\* Positions in the trace of p of the calls of ev made in epoch e.
InEpoch(p, ev, e) ==
    {i \in 1 .. Len(trace[p]) : trace[p][i].ev = ev /\ trace[p][i].e = e}

\* learn() terminated (line 250) during epoch e.
TerminatedInEpoch(p, e) ==
    \E i \in InEpoch(p, "save", e) : trace[p][i].kind = "terminal"

\* p has left epoch e behind without terminating in it.
EpochCompleted(p, e) ==
    /\ pc[p] # "idle"
    /\ ~TerminatedInEpoch(p, e)
    /\ \/ e < epoch[p]
       \/ (pc[p] = "done" /\ retval[p].kind = "none")

C11_PostEpochOncePerCompletedEpoch ==
    \A p \in Procs :
        \A e \in 0 .. (config.epochs - 1) :
            LET cb == InEpoch(p, "post_epoch_callback", e)
            IN  /\ Cardinality(cb) = (IF EpochCompleted(p, e) THEN 1 ELSE 0)
                /\ TerminatedInEpoch(p, e) => cb = {}
                /\ \A j \in cb :
                       /\ Cardinality(InEpoch(p, "update", e)) =
                              config.n_batches * config.n_updates_per_batch
                       /\ Cardinality(InEpoch(p, "post_backward_callback", e)) =
                              config.n_batches
                       /\ j > 1
                       /\ trace[p][j - 1].ev = "post_backward_callback"
                       /\ trace[p][j - 1].e = e
                       /\ trace[p][j - 1].b = config.n_batches - 1
                       /\ \A i \in 1 .. Len(trace[p]) :
                              trace[p][i].ev \in {"update", "post_backward_callback"} =>
                                  IF i < j THEN trace[p][i].e <= e ELSE trace[p][i].e > e

\* A run that completed its first epoch of two batches, called the
\* callback, and then terminated during the second epoch, which got none.
C11_Witness ==
    \E p \in Procs :
        /\ pc[p] = "done"
        /\ config.n_batches >= 2
        /\ InEpoch(p, "post_epoch_callback", 0) # {}
        /\ TerminatedInEpoch(p, 1)
        /\ InEpoch(p, "post_epoch_callback", 1) = {}

(***************************************************************************)
(* C12.  With N >= 2 processes that share the configuration and the batch  *)
(* sequence, iter_count and the optimizer and scheduler step counts are    *)
(* equal across processes at every collective point (backward, the gather  *)
(* of evaluate, save), and all processes make their cadence and terminal   *)
(* save() and evaluate() calls at the same iter_count values and terminate *)
(* at the same iter_count.                                                 *)
(***************************************************************************)
\* What a call is, apart from the stats keys that only the main process has.
CallOf(r) == <<r.ev, r.kind, r.k, r.e, r.b, r.u>>

\* p and q are inside the same collective call: the same round of backward
\* or of gather.
InSameCollective(p, q) ==
    \/ pc[p] = "backward_wait" /\ pc[q] = "backward_wait" /\ n_backward[p] = n_backward[q]
    \/ pc[p] = "gather_wait" /\ pc[q] = "gather_wait" /\ n_gather[p] = n_gather[q]

SameCounts(p, q) ==
    /\ iter_count[p] = iter_count[q]
    /\ n_opt_step[p] = n_opt_step[q]
    /\ n_sched_step[p] = n_sched_step[q]

C12_ProcessesInLockstep ==
    \A p \in Procs :
        \A q \in Procs :
            /\ InSameCollective(p, q) => SameCounts(p, q) /\ eval_kind[p] = eval_kind[q]
            \* the i-th call of p and the i-th call of q are the same call, made
            \* at the same iter_count: save, evaluate, update and callbacks alike
            /\ \A i \in 1 .. Min(Len(trace[p]), Len(trace[q])) :
                   CallOf(trace[p][i]) = CallOf(trace[q][i])
            \* no process is a whole update ahead of another
            /\ iter_count[p] - iter_count[q] \in {-1, 0, 1}
            /\ (pc[p] = "done" /\ pc[q] = "done") =>
                   /\ SameCounts(p, q)
                   /\ retval[p].kind = retval[q].kind
                   /\ Len(trace[p]) = Len(trace[q])

\* Two processes have both returned from learn() through the terminal
\* evaluation, after cadence saves and evaluations on the way.
C12_Witness ==
    \E p \in Procs :
        \E q \in Procs :
            /\ p # q
            /\ pc[p] = "done" /\ pc[q] = "done"
            /\ retval[p].kind = "stats"
            /\ iter_count[p] >= 2
            /\ Calls(p, "save", "cadence") # {}
            /\ Calls(q, "evaluate", "cadence") # {}

(***************************************************************************)
(* C13.  Freezing is irreversible: after any sequence of generate(),       *)
(* evaluate(), save() and learn() calls, the blocks frozen at construction *)
(* are still frozen and no other block has become frozen.                  *)
(***************************************************************************)
\* The blocks that construction froze.
FrozenAtConstruction ==
    LET fl == gpt_blocks_to_freeze(config.n_blocks, config.num_layers_unfrozen)
    IN  {fl[i] : i \in 1 .. Len(fl)}

FrozenNow == {i \in DOMAIN requires_grad : ~requires_grad[i]}

C13_FreezingIsIrreversible ==
    /\ DOMAIN requires_grad = 1 .. config.n_blocks
    /\ FrozenNow = FrozenAtConstruction

\* A model frozen in part has been through generate(), a whole learn() run
\* with a cadence save() and evaluate(), and an evaluate() after it.
C13_Witness ==
    \E p \in Procs :
        /\ pc[p] = "done"
        /\ FrozenNow # {} /\ FrozenNow # DOMAIN requires_grad
        /\ iter_count[p] >= 1
        /\ Calls(p, "evaluate", "cadence") # {}
        /\ Calls(p, "generate", "before_learn") # {}
        /\ Calls(p, "save", "cadence") # {}
        /\ Calls(p, "evaluate", "after_learn") # {}

(***************************************************************************)
(* C14.  In evaluate(), every generated sample is right-padded: every      *)
(* accumulated sample has length exactly max_length, the original tokens   *)
(* are kept unchanged at its front, and every added position holds the     *)
(* tokenizer's end-of-sequence id when a tokenizer is configured and 0     *)
(* when none is.                                                           *)
(***************************************************************************)
\* The samples process p generated, batch after batch, before any padding.
RECURSIVE GeneratedSamples(_, _)
GeneratedSamples(p, nb) ==
    IF nb = 0 THEN <<>> ELSE GeneratedSamples(p, nb - 1) \o GeneratedBatch(p, nb)

\* Process p has accumulated the samples of an evaluate() call.
HasAccumulated(p) == n_evaluate[p] >= 1

\* Sample s is sample g right-padded to max_length.
IsRightPadded(s, g) ==
    /\ Len(s) = eval_in.max_length
    /\ Len(g) <= Len(s)
    /\ SubSeq(s, 1, Len(g)) = g
    /\ \A j \in (Len(g) + 1) .. Len(s) :
           s[j] = IF eval_in.tokenizer THEN eval_in.eos_token_id ELSE 0

C14_SamplesRightPaddedToMaxLength ==
    \A p \in Procs :
        HasAccumulated(p) =>
            LET g == GeneratedSamples(p, eval_in.n_eval_batches)
            IN  /\ Len(all_samples[p]) = Len(g)
                /\ \A i \in 1 .. Len(g) : IsRightPadded(all_samples[p][i], g[i])

\* An evaluate() has accumulated a sample longer than max_length next to a
\* shorter one: the first has lost its last tokens, the second is padded.
C14_Witness ==
    \E p \in Procs :
        /\ HasAccumulated(p)
        /\ LET g == GeneratedSamples(p, eval_in.n_eval_batches)
           IN  \E i, k \in 1 .. Len(g) :
                   /\ Len(g[i]) > eval_in.max_length
                   /\ all_samples[p][i] = SubSeq(g[i], 1, eval_in.max_length)
                   /\ Len(g[k]) < eval_in.max_length
                   /\ IsRightPadded(all_samples[p][k], g[k])

EvaluateReturns(p) == {i \in 1 .. Len(trace[p]) : trace[p][i].ev = "evaluate"}

\* The padded samples of every process, in rank order.
FullCollection ==
    GatherRanks([q \in Procs |-> VStack(q, eval_in.n_eval_batches)], config.nproc)

C16_RewardFnOncePerEvaluate ==
    \A p \in Procs :
        IF is_main_process(p) /\ config.reward_fn
        THEN /\ n_reward_fn[p] = Cardinality(EvaluateReturns(p))
             /\ n_reward_fn[p] >= 1 =>
                    /\ reward_arg[p] = IF eval_in.tokenizer
                                       THEN batch_decode(FullCollection)
                                       ELSE FullCollection
                    /\ Len(reward_arg[p]) =
                           config.nproc * eval_in.n_eval_batches * eval_in.rows
                    /\ Len(rewards[p]) = Len(reward_arg[p])
                    /\ mean_reward[p].den > 0
                    /\ mean_reward[p].num * Len(rewards[p])
                           = SumSeq(rewards[p]) * mean_reward[p].den
                    /\ rewards[p] = <<1, 2, 3>> =>
                           mean_reward[p].num = 2 * mean_reward[p].den
        ELSE /\ n_reward_fn[p] = 0
             /\ mean_reward[p] = NoMean

\* The main process of two has returned from its second evaluate(), with a
\* reward for each of the samples of both processes.
C16_Witness ==
    /\ config.nproc = 2
    /\ config.reward_fn
    /\ n_reward_fn[0] = 2
    /\ pc[0] = "idle"
    /\ Len(rewards[0]) >= 4
    /\ mean_reward[0].num > mean_reward[0].den

(***************************************************************************)
(* C17.  Within one iter_count: when both cadence triggers fire, save()    *)
(* happens before evaluate(); the termination test comes after both        *)
(* cadence triggers, so the terminal save() and evaluate() come after any  *)
(* cadence save(), evaluate() and log of the same iter_count.              *)
(***************************************************************************)
\* The place of a call among the calls of one update.
OrderInUpdate(r) ==
    CASE r.ev = "update" -> 0
      [] r.ev = "save" /\ r.kind = "cadence" -> 1
      [] r.ev = "evaluate" /\ r.kind = "cadence" -> 2
      [] r.ev = "log" -> 3
      [] r.ev = "save" /\ r.kind = "terminal" -> 4
      [] r.ev = "evaluate" /\ r.kind = "terminal" -> 5
      [] OTHER -> 6

InEvaluate(p) == pc[p] \in {"evaluate", "gather", "gather_wait", "eval_main"}

\* The termination test of this update, or what follows it when it holds.
AtOrPastTermCheck(p) ==
    \/ pc[p] \in {"term_check", "term_save"}
    \/ InEvaluate(p) /\ eval_kind[p] = "terminal"

C17_CadenceBeforeTermination ==
    \A p \in Procs :
        /\ \A i, j \in 1 .. Len(trace[p]) :
               (/\ i < j
                /\ trace[p][i].k = trace[p][j].k
                /\ OrderInUpdate(trace[p][i]) < 6
                /\ OrderInUpdate(trace[p][j]) < 6)
               => OrderInUpdate(trace[p][i]) < OrderInUpdate(trace[p][j])
        /\ (InEvaluate(p) /\ eval_kind[p] = "cadence" /\ CheckpointDue(p)) =>
               CallsAt(p, "save", "cadence", iter_count[p]) # {}
        /\ AtOrPastTermCheck(p) =>
               /\ CheckpointDue(p) =>
                      CallsAt(p, "save", "cadence", iter_count[p]) # {}
               /\ EvalDue(p) =>
                      /\ CallsAt(p, "evaluate", "cadence", iter_count[p]) # {}
                      /\ CallsAt(p, "log", "cadence", iter_count[p]) # {}

\* Both cadence triggers and the termination test held at one iter_count,
\* after an update at which neither cadence trigger did.
C17_Witness ==
    \E p \in Procs :
        /\ pc[p] = "done"
        /\ iter_count[p] >= 2
        /\ CallsAt(p, "save", "cadence", 1) = {}
        /\ CallsAt(p, "evaluate", "cadence", 1) = {}
        /\ CallsAt(p, "save", "cadence", iter_count[p]) # {}
        /\ CallsAt(p, "evaluate", "cadence", iter_count[p]) # {}
        /\ CallsAt(p, "log", "cadence", iter_count[p]) # {}
        /\ CallsAt(p, "save", "terminal", iter_count[p]) # {}
        /\ CallsAt(p, "evaluate", "terminal", iter_count[p]) # {}

(***************************************************************************)
(* C18.  The stats of the terminal evaluate() are returned by learn() and  *)
(* never passed to the logging sink; the log calls of a learn() run are as *)
(* many as the updates k with k % eval_interval = 0; every log call is     *)
(* preceded by exactly one cadence evaluate() at the same iter_count.      *)
(***************************************************************************)
\* Update k has been through its evaluation cadence, lines 234-244.
PastEvalCadence(p, k) ==
    \/ k < iter_count[p]
    \/ k = iter_count[p] /\ (AtOrPastTermCheck(p) \/ pc[p] = "done"
                              \/ pc[p] \in {"post_backward", "post_epoch",
                                            "epoch_head", "batch_head", "update_head"})

LoggedUpdates(p) == {k \in 1 .. iter_count[p] : k % config.eval_interval = 0}

C18_LogOnlyAfterCadenceEvaluate ==
    \A p \in Procs :
        /\ \A i \in 1 .. Len(trace[p]) :
               trace[p][i].ev = "log" =>
                   /\ trace[p][i].kind = "cadence"
                   /\ Cardinality(CallsAt(p, "evaluate", "cadence", trace[p][i].k)) = 1
                   /\ i > 1
                   /\ trace[p][i - 1].ev = "evaluate"
                   /\ trace[p][i - 1].kind = "cadence"
                   /\ trace[p][i - 1].k = trace[p][i].k
                   /\ trace[p][i].k \in LoggedUpdates(p)
        /\ \A k \in LoggedUpdates(p) :
               /\ Cardinality(CallsAt(p, "log", "cadence", k)) <= 1
               /\ PastEvalCadence(p, k) =>
                      Cardinality(CallsAt(p, "log", "cadence", k)) = 1
        /\ pc[p] = "done" =>
               Cardinality(Calls(p, "log", "cadence")) = Cardinality(LoggedUpdates(p))
        /\ (pc[p] = "done" /\ retval[p].kind = "stats") =>
               /\ trace[p][Len(trace[p])].ev = "evaluate"
               /\ trace[p][Len(trace[p])].kind = "terminal"
               /\ retval[p].keys = trace[p][Len(trace[p])].keys

\* learn() has returned the stats of its terminal evaluate() after a run
\* with an update that logged and, before it, one that did not.
C18_Witness ==
    \E p \in Procs :
        /\ pc[p] = "done"
        /\ retval[p].kind = "stats"
        /\ config.eval_interval = 2
        /\ iter_count[p] = 3
        /\ Cardinality(Calls(p, "log", "cadence")) = 1
        /\ CallsAt(p, "evaluate", "terminal", 3) # {}

(***************************************************************************)
(* C19.  evaluate() and save() leave the training state unchanged:         *)
(* iter_count, the optimizer step count, the scheduler step count and the  *)
(* set of frozen blocks are the same after the call as before it.  So      *)
(* however often evaluate() and save() are called, inside or outside       *)
(* learn(), the checkpoint, evaluation and termination steps of learn()    *)
(* stay where the configuration puts them.                                 *)
(***************************************************************************)
\* This step is one of save() or of evaluate(), made by process p.
SaveOrEvaluateStep(p) ==
    \/ InEvaluate(p) /\ pc'[p] # pc[p]
    \/ pc[p] # "evaluate" /\ pc'[p] = "evaluate"
    \/ /\ Len(trace'[p]) = Len(trace[p]) + 1
       /\ trace'[p][Len(trace'[p])].ev = "save"

TrainingStateUnchanged(p) ==
    /\ iter_count'[p] = iter_count[p]
    /\ n_opt_step'[p] = n_opt_step[p]
    /\ n_sched_step'[p] = n_sched_step[p]
    /\ requires_grad' = requires_grad

\* The set of the entries of a sequence.
Range(f) == {f[i] : i \in 1 .. Len(f)}

\* The steps of a finished learn() are those the configuration gives.
StepsAsConfigured(p) ==
    /\ iter_count[p] = Min(TotalUpdates, config.total_steps)
    /\ Range(StepsOf(trace[p], "save", "cadence"))
           = {k \in 1 .. iter_count[p] : k % config.checkpoint_interval = 0}
    /\ Range(StepsOf(trace[p], "evaluate", "cadence"))
           = {k \in 1 .. iter_count[p] : k % config.eval_interval = 0}
    /\ Range(StepsOf(trace[p], "evaluate", "terminal"))
           = {k \in {iter_count[p]} : k >= config.total_steps}
    /\ n_opt_step[p] = iter_count[p]
    /\ n_sched_step[p] = iter_count[p]

C19_EvaluateAndSaveKeepTrainingState ==
    /\ [][\A p \in Procs : SaveOrEvaluateStep(p) => TrainingStateUnchanged(p)]_vars
    /\ [](\A p \in Procs : pc[p] = "done" => StepsAsConfigured(p))

\* learn() has run to its terminal evaluate() after a save() and an
\* evaluate() called before it, with cadence calls of both inside it.
C19_Witness ==
    \E p \in Procs :
        /\ pc[p] = "done"
        /\ Calls(p, "save", "before_learn") # {}
        /\ Calls(p, "evaluate", "before_learn") # {}
        /\ iter_count[p] >= 2
        /\ Calls(p, "save", "cadence") # {}
        /\ Calls(p, "evaluate", "cadence") # {}
        /\ Calls(p, "evaluate", "terminal") # {}

====
